---- MODULE Spec2Model ----
(***************************************************************************)
(* A model of the tile pipeline of ea_lidar: download_lidar_dsm of         *)
(* src/tile_downloader.py, one action per step of the procedure.  The      *)
(* portal, the HTTP server and the browser are the environment: what they  *)
(* answer at each step is chosen with \E among the outcomes the code can   *)
(* observe (a page that loads or a wait that expires, a listing of         *)
(* labelled links, an HTTP status, an archive with or without a raster).   *)
(***************************************************************************)
EXTENDS Integers, Sequences, FiniteSets, TLC

\* ------------------------------------------------------------------ bounds
MaxTiles == 2        \* longest tile_names list
MaxRetries == 2      \* largest max_retries
MaxYears == 2        \* most year options the portal offers
MaxLinks == 2        \* most links in one results list
MaxOver == 2         \* largest excess of a vertex count over MAX_VERTICES
MaxParts == 2        \* most parts of the geometry of a shapefile
MaxAvailable == 2    \* most years in available_years
MaxCalls == 4        \* largest retries of retry_on_exception
MaxDelay == 2        \* largest delay of retry_on_exception

\* src/lidar_downloader.py:41
MAX_VERTICES == 1000

\* ------------------------------------------------------------ names, labels
\* Names are sequences of characters, so that matching is computed.
TileST == <<"s", "t">>
TileNW == <<"N", "w">>
TileZZ == <<"z", "z">>

\* gdf: the tile index read from the parquet file (src/tile_downloader.py:140)
TileIndex == {TileST, TileNW}

RequestNames == TileIndex \cup {TileZZ}

\* link.text of the links the portal lists: a label that names one tile, one that
\* names both tiles, one that names neither
Labels == { <<"S", "T", "_">>, <<"s", "T", "n", "w">>, <<"x", "_">> }

\* re.IGNORECASE: characters compared after case folding
Lower(c) ==
  CASE c = "S" -> "s"
    [] c = "T" -> "t"
    [] c = "N" -> "n"
    [] c = "W" -> "w"
    [] OTHER -> c

\* re.search(tile_name, name, re.IGNORECASE) for a literal tile name
Search(pat, text) ==
  \E k \in 0..(Len(text) - Len(pat)) :
    \A i \in 1..Len(pat) : Lower(pat[i]) = Lower(text[k + i])

\* matching_products of one results list (lines 276-287), in list order
RECURSIVE MatchingProducts(_, _)
MatchingProducts(tile, ls) ==
  IF ls = <<>> THEN <<>>
  ELSE IF Search(tile, Head(ls))
       THEN <<Head(ls)>> \o MatchingProducts(tile, Tail(ls))
       ELSE MatchingProducts(tile, Tail(ls))

\* what _count_vertices can return (src/lidar_downloader.py:197-207): the four
\* coordinates of a closed triangle, and the counts around the limit
VertexCounts == {4} \cup ((MAX_VERTICES - 1)..(MAX_VERTICES + MaxOver))

\* shp.area.values[0] on either side of the threshold of
\* src/lidar_downloader.py:181
Areas == {561333677, 561333678}

SeqsUpTo(S, n) == UNION { [1..k -> S] : k \in 1..n }

\* ------------------------------------------------------------------- state
VARIABLES
  tile_names,        \* argument: the list of requested tile names
  max_retries,       \* argument
  pc,                \* position in download_lidar_dsm
  ti,                \* index of tile_name in tile_names (for loop, line 146)
  retry_count,       \* line 194
  browser,           \* local variable browser: 0 unbound, else a session id
  sessions,          \* every session setup_browser returned, in order
  wf,                \* workflow state of the portal driver in this attempt
  nyears,            \* Len(year_options), line 260; -1 while it is unbound
  yi,                \* index of year in year_options (for loop, line 263)
  matching_products, \* line 276
  mi,                \* index in matching_products (for loop, line 296)
  tiff_file,         \* line 326: label of the raster glob returned first
  tmp_exists,        \* whether tmp_dir exists
  zips,              \* tmp_dir/<name>.zip: "none"; "partial" (cut short while
                     \* it was written); "broken" (whole, but no archive); an
                     \* archive with a raster, "tif", or without, "notif"
  tifs,              \* rasters extracted into tmp_dir
  cogs,              \* output_dir/<tile>/cog_<tile>.tif: its source raster, or
                     \* Earlier, or <<>> when there is no such file
  err,               \* the exception in flight in the current attempt
  propagating,       \* the except clause re-raised (line 378)
  result,            \* how the call ended: "running", "returned", "raised"
  propagated,        \* the exception that left the call
  attempts,          \* per tile index: try blocks entered
  failed,            \* per tile index: attempts that raised
  scanned,           \* this attempt: years listed, with whether each matched
  downloads,         \* this attempt: <<year index, label>> of each download
  used,              \* <<tile index, attempt>> of every attempt that wrote in tmp_dir
  \* LidarDownloader._simplify_geometry (src/lidar_downloader.py:209-217)
  sg_pc,             \* position in _simplify_geometry, "off" when it is not called
  shp_in,            \* vertex count of the argument as it was passed
  shp,               \* vertex count of shp.geometry now
  tolerance,         \* line 211; 0 while it is unbound
  tols,              \* the tolerance of every simplify pass made, in order
  \* LidarDownloader.process_shapefile (src/lidar_downloader.py:167-195)
  ps_pc,             \* position in process_shapefile, "off" when it is not called
  crs,               \* shp.crs of the file read: "none", "osgb" or "other"
  area,              \* shp.area.values[0]
  parts,             \* len(shp.explode(index_parts=True))
  vertices,          \* vertex count of the geometry read
  ps_result,         \* how the call ended, with the bundles returned or the cause
  \* the upload archive (src/tile_downloader.py:186-189 and
  \* LidarDownloader._create_zip_from_shapefile, src/lidar_downloader.py:219-227)
  bz_pc,             \* position in the packaging code, "off" when it does not run
  packager,          \* which of the two builds the archive
  dir_files,         \* extensions of the files <stem>.* in the directory
  todo,              \* the files the loop has yet to write into the archive
  archive,           \* the entries of the archive
  \* LidarDownloader._get_years_to_download (src/lidar_downloader.py:290-300)
  gy_pc,             \* "off", "call", "returned" or "raised"
  year,              \* self.config.year
  all_years,         \* self.config.all_years
  available_years,   \* the argument
  selected_years,    \* the list returned
  \* the wrapper of retry_on_exception (src/lidar_downloader.py:70-86)
  rt_pc,             \* position in wrapper, "off" when it is not called
  retries,           \* argument of the decorator
  delay,             \* argument of the decorator
  rt_i,              \* the loop variable i of line 76
  calls,             \* how many times func was called
  last_exception,    \* line 75: 0 for None, else the call that raised it
  sleeps,            \* the duration of every time.sleep, in order
  rt_result          \* how wrapper ended, with the call whose value or
                     \* exception left it

\* the variables of download_lidar_dsm
pipeline == << tile_names, max_retries, pc, ti, retry_count, browser, sessions, wf,
           nyears, yi, matching_products, mi, tiff_file, tmp_exists,
           zips, tifs, cogs, err, propagating, result, propagated, attempts,
           failed, scanned, downloads, used >>

\* the variables of _simplify_geometry
simplify == << sg_pc, shp_in, shp, tolerance, tols >>

\* the variables of process_shapefile
shapefile == << ps_pc, crs, area, parts, vertices, ps_result >>

\* the variables of the packaging code
bundle == << bz_pc, packager, dir_files, todo, archive >>

\* the variables of _get_years_to_download
yearsel == << gy_pc, year, all_years, available_years, selected_years >>

\* the variables of the wrapper of retry_on_exception
retrier == << rt_pc, retries, delay, rt_i, calls, last_exception, sleeps,
             rt_result >>

\* everything but the variables of download_lidar_dsm
lidar == << simplify, shapefile, bundle, yearsel, retrier >>

\* everything but the variables of _simplify_geometry
outside_simplify == << pipeline, shapefile, bundle, yearsel, retrier >>

\* everything but the variables of process_shapefile and of what it calls
outside_shapefile == << pipeline, bundle, yearsel, retrier >>

\* everything but the variables of the packaging code
outside_bundle == << pipeline, simplify, shapefile, yearsel, retrier >>

\* everything but the variables of _get_years_to_download
outside_yearsel == << pipeline, simplify, shapefile, bundle, retrier >>

\* everything but the variables of the wrapper of retry_on_exception
outside_retrier == << pipeline, simplify, shapefile, bundle, yearsel >>

vars == << pipeline, lidar >>

\* the raster an earlier call of download_lidar_dsm wrote at
\* output_dir/<tile>/cog_<tile>.tif (lines 148-149, 333)
Earlier == <<"e", "_">>

NoErr == [kind |-> "none", att |-> 0]

\* the locals and the files of a call of download_lidar_dsm before its first line
InitCall ==
  /\ pc = "start"
  /\ ti = 0
  /\ retry_count = 0
  /\ browser = 0
  /\ sessions = <<>>
  /\ wf = "none"
  /\ nyears = -1
  /\ yi = 0
  /\ matching_products = <<>>
  /\ mi = 0
  /\ tiff_file = <<>>
  /\ tmp_exists = FALSE
  /\ zips = [l \in Labels |-> "none"]
  /\ tifs = {}
  /\ \E prior \in BOOLEAN :       \* whether an earlier call left its outputs
       cogs = [i \in 1..Len(tile_names) |->
                 IF prior /\ tile_names[i] \in TileIndex THEN Earlier ELSE <<>>]
  /\ err = NoErr
  /\ propagating = FALSE
  /\ result = "running"
  /\ propagated = NoErr
  /\ attempts = [i \in 1..Len(tile_names) |-> 0]
  /\ failed = [i \in 1..Len(tile_names) |-> 0]
  /\ scanned = <<>>
  /\ downloads = {}
  /\ used = {}

\* _simplify_geometry is not called
SimplifyOff ==
  /\ sg_pc = "off"
  /\ shp_in = 0
  /\ shp = 0
  /\ tolerance = 0
  /\ tols = <<>>

NoResult == [kind |-> "running", bundles |-> 0, cause |-> "none"]

\* process_shapefile is not called
ShapefileOff ==
  /\ ps_pc = "off"
  /\ crs = "none"
  /\ area = 0
  /\ parts = 0
  /\ vertices = 0
  /\ ps_result = NoResult

\* the packaging code does not run
BundleOff ==
  /\ bz_pc = "off"
  /\ packager = "none"
  /\ dir_files = {}
  /\ todo = {}
  /\ archive = {}

\* _get_years_to_download is not called
YearsOff ==
  /\ gy_pc = "off"
  /\ year = "latest"
  /\ all_years = FALSE
  /\ available_years = <<>>
  /\ selected_years = <<>>

Running == [kind |-> "running", call |-> 0]

\* no wrapped function is called
RetryOff ==
  /\ rt_pc = "off"
  /\ retries = 0
  /\ delay = 0
  /\ rt_i = 0
  /\ calls = 0
  /\ last_exception = 0
  /\ sleeps = <<>>
  /\ rt_result = Running

\* download_lidar_dsm is not called
PipelineOff ==
  /\ tile_names = <<>>
  /\ max_retries = 0
  /\ InitCall

Init ==
  /\ tile_names \in SeqsUpTo(RequestNames, MaxTiles)
  /\ max_retries \in -1..MaxRetries
  /\ InitCall
  /\ SimplifyOff
  /\ ShapefileOff
  /\ BundleOff
  /\ YearsOff
  /\ RetryOff


\* ---------------------------------------------------------------- helpers
tile_name == tile_names[ti]

\* the name bound by "for name, href in matching_products" (line 296)
name == matching_products[mi]

Bump(f, i) == [f EXCEPT ![i] = @ + 1]

\* an exception raised inside the try block (lines 196-372) by the current attempt
Raise(kind) ==
  /\ err' = [kind |-> kind, att |-> attempts[ti]]
  /\ pc' = "except"

\* line 195: while retry_count < max_retries
WhileCond_le == retry_count <= max_retries
WhileCond == retry_count < max_retries

\* line 376: if retry_count == max_retries
Terminal_early(rc) == rc >= max_retries - 1
Terminal_never(rc) == rc > max_retries
Terminal(rc) == rc = max_retries

\* line 343: break, which leaves the year loop past its else clause (line 372 follows)
AfterMatched_continue == "year"
AfterMatched == "finally"

\* lines 345-348: a year without a match goes on with the next year
NoMatchInYear_raise ==
  /\ wf' = "Exhausted"
  /\ Raise("NoMatch")
NoMatchInYear ==
  /\ pc' = "year"
  /\ UNCHANGED << wf, err >>

\* lines 383-384: the session bound to browser is quit
Quit_none(ss, b) == ss
Quit(ss, b) ==
  IF b = 0 THEN ss
  ELSE [ss EXCEPT ![b] = [@ EXCEPT !.open = FALSE, !.quits = @ + 1]]

inputs == << tile_names, max_retries >>
files == << tmp_exists, zips, tifs, cogs >>
outcome == << propagating, result, propagated >>
counts == << attempts, failed >>
yearloop == << nyears, yi, matching_products, mi, tiff_file >>
history == << scanned, downloads, used >>

\* ---------------------------------------------------------------- actions
\* lines 131-143: tmp_dir = tempfile.mkdtemp(), then the index is read
Start ==
  /\ pc = "start"
  /\ tmp_exists' = TRUE
  /\ \/ /\ pc' = "for"
        /\ ti' = 1
        /\ UNCHANGED outcome
     \/ /\ pc' = "done"             \* gpd.read_parquet or os.makedirs raises
        /\ result' = "raised"
        /\ propagated' = [kind |-> "ReadIndex", att |-> 0]
        /\ UNCHANGED << ti, propagating >>
  /\ UNCHANGED << lidar, inputs, retry_count, browser, sessions, wf,
                  yearloop, zips,
                  tifs, cogs, err, counts, history >>

\* lines 146-194: the head of the tile loop, the footprint and the upload bundle
ForTile ==
  /\ pc = "for"
  /\ IF ti > Len(tile_names)
     THEN /\ pc' = "cleanup"
          /\ UNCHANGED << ti, retry_count, used, outcome >>
     ELSE IF tile_name \notin TileIndex
     THEN /\ ti' = ti + 1            \* line 162: continue
          /\ UNCHANGED << pc, retry_count, used, outcome >>
     ELSE \/ /\ retry_count' = 0      \* bundle written in tmp_dir
             /\ used' = used \cup {<<ti, 0>>}
             /\ pc' = "while"
             /\ UNCHANGED << ti, outcome >>
          \/ /\ pc' = "done"          \* to_file or ZipFile raises, outside the try
             /\ result' = "raised"
             /\ propagated' = [kind |-> "Packaging", att |-> 0]
             /\ UNCHANGED << ti, retry_count, used, propagating >>
  /\ UNCHANGED << lidar, inputs, browser, sessions, wf, yearloop, files, err,
                  attempts, failed, scanned, downloads >>

\* lines 195-197: the loop test, the try block entered, setup_browser()
TryAttempt ==
  /\ pc = "while"
  /\ IF WhileCond
     THEN /\ attempts' = Bump(attempts, ti)
          /\ \/ /\ sessions' = Append(sessions, [tile |-> ti, att |-> attempts'[ti],
                                                  open |-> TRUE, quits |-> 0])
                /\ browser' = Len(sessions')
                /\ err' = NoErr
                /\ pc' = "get"
             \/ /\ err' = [kind |-> "Setup", att |-> attempts'[ti]]   \* line 96
                /\ pc' = "except"
                /\ UNCHANGED << browser, sessions >>
          /\ UNCHANGED ti
     ELSE /\ ti' = ti + 1
          /\ pc' = "for"
          /\ UNCHANGED << attempts, browser, sessions, err >>
  /\ UNCHANGED << lidar, inputs, retry_count, wf, yearloop, files, outcome, failed,
                  history >>

\* a step whose expired wait is ignored: the action is performed all the same
Step_ignore(at, next, state) ==
  /\ pc = at
  /\ pc' = next
  /\ wf' = state
  /\ \/ UNCHANGED err
     \/ err' = [kind |-> "Timeout", att |-> attempts[ti]]
  /\ UNCHANGED << lidar, inputs, ti, retry_count, browser, sessions, yearloop, files,
                  outcome, counts, history >>

\* one step of the portal workflow: the wait, then the action
Step(at, next, state) ==
  /\ pc = at
  /\ \/ /\ pc' = next
        /\ wf' = state
        /\ UNCHANGED err
     \/ /\ Raise(IF at = "get" THEN "WebDriver" ELSE "Timeout")
        /\ UNCHANGED wf
  /\ UNCHANGED << lidar, inputs, ti, retry_count, browser, sessions, yearloop, files,
                  outcome, counts, history >>

\* lines 198-203: browser.get
Get == Step("get", "upload_mode", "Started")

\* lines 206-215
UploadMode == Step("upload_mode", "upload", "UploadModeSelected")

\* lines 217-225
Upload_skip == Step("upload", "product", "BundleUploaded")
Upload == Step("upload", "selector", "BundleUploaded")

\* lines 227-233
Selector == Step("selector", "product", "SelectorTriggered")

\* lines 236-250
Product == Step("product", "years", "ProductSelected")

\* lines 252-260: the year dropdown and its options
Years ==
  /\ pc = "years"
  /\ \/ /\ \E n \in 0..MaxYears : nyears' = n
        /\ yi' = 0
        /\ pc' = "year"
        /\ UNCHANGED err
     \/ /\ Raise("Timeout")
        /\ UNCHANGED << nyears, yi >>
  /\ UNCHANGED << lidar, inputs, ti, retry_count, browser, sessions, wf,
                  matching_products, mi, tiff_file, files, outcome, counts,
                  history >>

\* lines 263-267 and 350-353: the head of the year loop and its else clause
YearLoop ==
  /\ pc = "year"
  /\ IF yi < nyears
     THEN /\ yi' = yi + 1
          /\ wf' = "YearIterating"
          /\ pc' = "list"
          /\ UNCHANGED err
     ELSE /\ wf' = "Exhausted"
          /\ Raise("NoMatch")
          /\ UNCHANGED yi
  /\ UNCHANGED << lidar, inputs, ti, retry_count, browser, sessions, nyears,
                  matching_products, mi, tiff_file, files, outcome, counts,
                  history >>

\* lines 269-287: the wait for the results list, the links found, the labels that match
ListTiles ==
  /\ pc = "list"
  /\ \/ /\ \E links \in SeqsUpTo(Labels, MaxLinks) :     \* line 273
             matching_products' = MatchingProducts(tile_name, links)
        /\ scanned' = Append(scanned, [year |-> yi,
                                       matched |-> matching_products' # <<>>])
        /\ wf' = "TilesListed"
        /\ pc' = "match"
        /\ UNCHANGED err
     \/ /\ Raise("Timeout")         \* also the outcome of an empty results list
        /\ UNCHANGED << matching_products, scanned, wf >>
  /\ UNCHANGED << lidar, inputs, ti, retry_count, browser, sessions, nyears, yi, mi,
                  tiff_file, files, outcome, counts, downloads, used >>

\* lines 289-296 and 345-348: if matching_products: ... else: continue
MatchCheck ==
  /\ pc = "match"
  /\ IF matching_products # <<>>
     THEN /\ wf' = "Matched"
          /\ mi' = 1
          /\ pc' = "link"
          /\ UNCHANGED err
     ELSE /\ NoMatchInYear
          /\ UNCHANGED mi
  /\ UNCHANGED << lidar, inputs, ti, retry_count, browser, sessions, nyears, yi,
                  matching_products, tiff_file, files, outcome, counts,
                  history >>

\* lines 296-312, 343 and 372: the head of the link loop, the skip, download_file
Link ==
  /\ pc = "link"
  /\ IF mi > Len(matching_products)
     THEN /\ pc' = AfterMatched
          /\ UNCHANGED << mi, zips, err, downloads, used >>
     ELSE IF zips[name] # "none"
     THEN /\ mi' = mi + 1            \* lines 306-309: os.path.exists, continue
          /\ UNCHANGED << pc, zips, err, downloads, used >>
     ELSE /\ downloads' = downloads \cup {<<yi, name>>}
          /\ \/ /\ \E content \in {"tif", "notif", "broken"} :  \* status 200
                     zips' = [zips EXCEPT ![name] = content]
                /\ used' = used \cup {<<ti, attempts[ti]>>}
                /\ pc' = "extract"
                /\ UNCHANGED << mi, err >>
             \/ /\ zips' = [zips EXCEPT ![name] = "partial"]  \* the stream breaks
                /\ used' = used \cup {<<ti, attempts[ti]>>}
                /\ Raise("Transport")
                /\ UNCHANGED mi
             \/ /\ pc' = "extract"                        \* lines 80-81: not 200
                /\ UNCHANGED << mi, zips, err, used >>
             \/ /\ Raise("Transport")                     \* session.get raises
                /\ UNCHANGED << mi, zips, used >>
  /\ UNCHANGED << lidar, inputs, ti, retry_count, browser, sessions, wf, nyears, yi,
                  matching_products, tiff_file, tmp_exists, tifs, cogs,
                  outcome, counts, scanned >>

\* lines 314-327: the archive is extracted into tmp_dir, then glob("*.tif")
Extract ==
  /\ pc = "extract"
  /\ IF zips[name] = "none"
     THEN /\ Raise("FileNotFound")
          /\ UNCHANGED << mi, tifs, tiff_file >>
     ELSE IF zips[name] \in {"partial", "broken"}
     THEN /\ Raise("BadZip")
          /\ UNCHANGED << mi, tifs, tiff_file >>
     ELSE /\ tifs' = tifs \cup (IF zips[name] = "tif" THEN {name} ELSE {})
          /\ IF tifs' = {}
             THEN /\ mi' = mi + 1    \* line 325: continue
                  /\ pc' = "link"
                  /\ UNCHANGED tiff_file
             ELSE /\ \E t \in tifs' : tiff_file' = t   \* tiff_files[0], in glob's order
                  /\ pc' = "convert"
                  /\ UNCHANGED mi
          /\ UNCHANGED err
  /\ UNCHANGED << lidar, inputs, ti, retry_count, browser, sessions, wf, nyears, yi,
                  matching_products, tmp_exists, zips, cogs, outcome,
                  counts, history >>

\* a conversion whose failure is not caught: it leaves the link loop as an error
Convert_raise ==
  /\ pc = "convert"
  /\ \/ /\ cogs' = [cogs EXCEPT ![ti] = tiff_file]
        /\ zips' = [zips EXCEPT ![name] = "none"]
        /\ mi' = mi + 1
        /\ pc' = "link"
        /\ UNCHANGED err
     \/ /\ Raise("Conversion")
        /\ UNCHANGED << cogs, zips, mi >>
  /\ UNCHANGED << lidar, inputs, ti, retry_count, browser, sessions, wf, nyears, yi,
                  matching_products, tiff_file, tmp_exists, tifs,
                  outcome, counts, history >>

\* lines 329-342: convert_cog (which swallows its errors), then the cleanup
Convert ==
  /\ pc = "convert"
  /\ \/ cogs' = [cogs EXCEPT ![ti] = tiff_file]
     \/ UNCHANGED cogs               \* lines 60-61: the conversion failed
  /\ zips' = [zips EXCEPT ![name] = "none"]    \* line 340
  \* line 342 removes tmp_dir/<raster stem>, a directory that does not exist
  /\ mi' = mi + 1
  /\ pc' = "link"
  /\ UNCHANGED << lidar, inputs, ti, retry_count, browser, sessions, wf, nyears, yi,
                  matching_products, tiff_file, tmp_exists, tifs, err,
                  outcome, counts, history >>

\* lines 374-380: the except clause
Except ==
  /\ pc = "except"
  /\ retry_count' = retry_count + 1
  /\ failed' = Bump(failed, ti)
  /\ propagating' = Terminal(retry_count')
  /\ pc' = "finally"
  /\ UNCHANGED << lidar, inputs, ti, browser, sessions, wf, yearloop, files, err, result,
                  propagated, attempts, history >>

\* lines 382-385: the finally clause, then where control goes
Finally ==
  /\ pc = "finally"
  /\ sessions' = Quit(sessions, browser)
  \* the session is gone, and with it the driver's state; the locals of the year
  \* loop are dead from here on: the next attempt assigns each before it reads it
  /\ wf' = "none"
  /\ nyears' = -1 /\ yi' = 0 /\ matching_products' = <<>> /\ mi' = 0
  /\ tiff_file' = <<>>
  /\ scanned' = <<>> /\ downloads' = {}
  /\ err' = NoErr
  /\ IF propagating
     THEN /\ result' = "raised"       \* line 378: the exception leaves the call
          /\ propagated' = err
          /\ pc' = "done"
          /\ UNCHANGED << ti, propagating >>
     ELSE IF err = NoErr
     THEN /\ ti' = ti + 1             \* line 372: break, the next tile
          /\ pc' = "for"
          /\ UNCHANGED outcome
     ELSE /\ pc' = "while"            \* the exception was handled: loop again
          /\ UNCHANGED << ti, outcome >>
  /\ UNCHANGED << lidar, inputs, retry_count, browser, files, counts, used >>

\* lines 387-388: shutil.rmtree(tmp_dir)
Cleanup ==
  /\ pc = "cleanup"
  /\ tmp_exists' = FALSE
  /\ zips' = [l \in Labels |-> "none"]
  /\ tifs' = {}
  /\ result' = "returned"
  /\ pc' = "done"
  /\ UNCHANGED << lidar, inputs, ti, retry_count, browser, sessions, wf, yearloop,
                  cogs, err, propagating, propagated, counts, history >>

Next ==
  \/ Start \/ ForTile \/ TryAttempt
  \/ Get \/ UploadMode \/ Upload \/ Selector \/ Product \/ Years
  \/ YearLoop \/ ListTiles \/ MatchCheck
  \/ Link \/ Extract \/ Convert
  \/ Except \/ Finally \/ Cleanup

Spec == Init /\ [][Next]_vars

\* ------------------------------------------------- _simplify_geometry
\* src/lidar_downloader.py:209-217, called with a geometry of any vertex
\* count; the pipeline of download_lidar_dsm is not running
InitSimplify ==
  /\ PipelineOff
  /\ ShapefileOff
  /\ BundleOff
  /\ YearsOff
  /\ RetryOff
  /\ sg_pc = "call"
  /\ shp_in \in VertexCounts
  /\ shp = shp_in
  /\ tolerance = 0
  /\ tols = <<>>

\* line 212: self._count_vertices(shp) > MAX_VERTICES
OverLimit_lax(n) == n > MAX_VERTICES + 1
OverLimit(n) == n > MAX_VERTICES

\* line 211: tolerance = 10
Simplify_tolerance ==
  /\ sg_pc = "call"
  /\ tolerance' = 10
  /\ sg_pc' = "while"
  /\ UNCHANGED << outside_simplify, shp_in, shp, tols >>

\* lines 212 and 217: the loop test, and the return when it fails
Simplify_while ==
  /\ sg_pc = "while"
  /\ sg_pc' = IF OverLimit(shp) THEN "pass" ELSE "returned"
  /\ UNCHANGED << outside_simplify, shp_in, shp, tolerance, tols >>

\* line 213: shp.geometry = shp.simplify(tolerance); a pass drops vertices of
\* the geometry it is given, any number of them, and adds none
Simplify_pass ==
  /\ sg_pc = "pass"
  /\ \E n \in VertexCounts : n <= shp /\ shp' = n
  /\ tols' = Append(tols, tolerance)
  /\ sg_pc' = "double"
  /\ UNCHANGED << outside_simplify, shp_in, tolerance >>

\* a safety check that lets one more doubling through
Simplify_double_late ==
  /\ sg_pc = "double"
  /\ tolerance' = tolerance * 2
  /\ sg_pc' = IF tolerance' > 2000 THEN "raised" ELSE "while"
  /\ UNCHANGED << outside_simplify, shp_in, shp, tols >>

\* lines 214-216: tolerance *= 2, then the safety check
Simplify_double ==
  /\ sg_pc = "double"
  /\ tolerance' = tolerance * 2
  /\ sg_pc' = IF tolerance' > 1000 THEN "raised" ELSE "while"
  /\ UNCHANGED << outside_simplify, shp_in, shp, tols >>

NextSimplify ==
  \/ Simplify_tolerance \/ Simplify_while \/ Simplify_pass \/ Simplify_double

SpecSimplify == InitSimplify /\ [][NextSimplify]_vars

\* the function runs in one thread and each of its steps ends: a step that
\* can be taken is taken
SpecSimplifyLive == SpecSimplify /\ WF_vars(NextSimplify)

\* ------------------------------------------------- process_shapefile
\* src/lidar_downloader.py:167-195, called with the path of a shapefile
InitShapefile ==
  /\ PipelineOff
  /\ SimplifyOff
  /\ BundleOff
  /\ YearsOff
  /\ RetryOff
  /\ ps_pc = "call"
  /\ crs \in {"none", "osgb", "other"}
  /\ area \in Areas
  /\ parts \in 1..MaxParts
  /\ vertices \in VertexCounts
  /\ ps_result = NoResult

\* lines 194-195: every exception of the body is raised again as a ValueError
Fail(cause) ==
  /\ ps_result' = [kind |-> "raised", bundles |-> 0, cause |-> cause]
  /\ ps_pc' = "done"

\* line 181: the geometry is large or has several parts
Complex == area > 561333677 \/ parts > 1

\* lines 170-178: the file is read, its CRS checked and transformed
ProcessShapefile_read ==
  /\ ps_pc = "call"
  /\ \/ Fail("read_file")                       \* gp.read_file raises
     \/ /\ crs = "none"
        /\ Fail("no_crs")                        \* line 174
     \/ /\ crs # "none"
        /\ ps_pc' = "route"
        /\ UNCHANGED ps_result
  /\ UNCHANGED << outside_shapefile, simplify, crs, area, parts, vertices >>

\* lines 181-182: a complex geometry goes to self._tile_large_geometry, a
\* method that LidarDownloader does not define: the call is an AttributeError
ProcessShapefile_route ==
  /\ ps_pc = "route"
  /\ IF Complex
     THEN Fail("AttributeError")
     ELSE /\ ps_pc' = "count"
          /\ UNCHANGED ps_result
  /\ UNCHANGED << outside_shapefile, simplify, crs, area, parts, vertices >>

\* lines 185-186: _simplify_geometry is called when there are too many vertices
ProcessShapefile_count ==
  /\ ps_pc = "count"
  /\ IF OverLimit(vertices)
     THEN /\ sg_pc' = "call"
          /\ shp_in' = vertices
          /\ shp' = vertices
          /\ ps_pc' = "simplify"
     ELSE /\ ps_pc' = "save"
          /\ UNCHANGED << sg_pc, shp_in, shp >>
  /\ UNCHANGED << outside_shapefile, tolerance, tols, crs, area, parts,
                  vertices, ps_result >>

\* line 186: _simplify_geometry has returned or raised
ProcessShapefile_simplified ==
  /\ ps_pc = "simplify"
  /\ \/ /\ sg_pc = "returned"
        /\ ps_pc' = "save"
        /\ UNCHANGED ps_result
     \/ /\ sg_pc = "raised"
        /\ Fail("simplify")
  /\ UNCHANGED << outside_shapefile, simplify, crs, area, parts, vertices >>

\* lines 189-192: the shapefile is written and zipped, one bundle is returned
ProcessShapefile_save ==
  /\ ps_pc = "save"
  /\ \/ /\ ps_result' = [kind |-> "returned", bundles |-> 1, cause |-> "none"]
        /\ ps_pc' = "done"
     \/ Fail("to_file")
  /\ UNCHANGED << outside_shapefile, simplify, crs, area, parts, vertices >>

NextShapefile ==
  \/ ProcessShapefile_read \/ ProcessShapefile_route \/ ProcessShapefile_count
  \/ ProcessShapefile_simplified \/ ProcessShapefile_save
  \/ Simplify_tolerance \/ Simplify_while \/ Simplify_pass \/ Simplify_double

SpecShapefile == InitShapefile /\ [][NextShapefile]_vars

\* ------------------------------------------------- the upload archive
\* the four sidecar files _create_zip_from_shapefile looks for (line 223)
Sidecars == {".shp", ".shx", ".dbf", ".prj"}

\* a file is <<stem, extension>>; tmp_name is the stem of the shapefile, and
\* the directory may hold the bundle of an earlier tile under another stem
TmpName == "tmp_name"
Leftover == { <<"earlier", ".shp">>, <<"earlier", ".zip">> }

\* what to_file can leave beside <stem>.shp: the sidecars, and the code page file
Written ==
  { { <<TmpName, e>> : e \in {".shp"} \cup x } :
      x \in SUBSET {".shx", ".dbf", ".prj", ".cpg"} }

\* src/tile_downloader.py:182-186 and src/lidar_downloader.py:190-221: the
\* shapefile has been written, the archive is about to be created
InitBundle ==
  /\ PipelineOff
  /\ SimplifyOff
  /\ ShapefileOff
  /\ YearsOff
  /\ RetryOff
  /\ bz_pc = "open"
  /\ packager \in {"download_lidar_dsm", "_create_zip_from_shapefile"}
  /\ \E w \in Written, old \in {{}, Leftover} : dir_files = w \cup old
  /\ todo = {}
  /\ archive = {}

\* glob.glob(tmp_dir/<stem>.*): the files of that stem, whatever their extension
Glob(fs, stem) == { f \in fs : f[1] = stem }

\* ZipFile(zip_path, 'w') (tile_downloader.py:187, lidar_downloader.py:222)
\* creates <stem>.zip in the same directory, then the loop is set up
Bundle_open ==
  /\ bz_pc = "open"
  /\ dir_files' = dir_files \cup { <<TmpName, ".zip">> }
  /\ todo' = IF packager = "download_lidar_dsm"
             THEN Glob(dir_files', TmpName)                \* tile_downloader.py:188
             ELSE { <<TmpName, e>> : e \in Sidecars }      \* lidar_downloader.py:223
  /\ bz_pc' = "write"
  /\ UNCHANGED << outside_bundle, packager, archive >>

\* one round of the loop: tile_downloader.py:188-189 writes the file,
\* lidar_downloader.py:224-226 writes it if it exists
Bundle_write ==
  /\ bz_pc = "write"
  /\ todo # {}
  /\ \E f \in todo :
       /\ todo' = todo \ {f}
       /\ archive' = IF f \in dir_files THEN archive \cup {f} ELSE archive
  /\ UNCHANGED << outside_bundle, bz_pc, packager, dir_files >>

\* the end of the with block: the archive is closed
Bundle_close ==
  /\ bz_pc = "write"
  /\ todo = {}
  /\ bz_pc' = "closed"
  /\ UNCHANGED << outside_bundle, packager, dir_files, todo, archive >>

NextBundle == Bundle_open \/ Bundle_write \/ Bundle_close

SpecBundle == InitBundle /\ [][NextBundle]_vars

\* ------------------------------------------------- _get_years_to_download
\* the values of the year options of the portal, as strings
YearValues == {"2019", "2020", "2021"}

\* int(y) for a year string
ToInt(y) ==
  CASE y = "2019" -> 2019
    [] y = "2020" -> 2020
    [] y = "2021" -> 2021

\* [y for y in ys if int(y) >= int(from)], line 295
RECURSIVE YearsFrom(_, _)
YearsFrom(ys, from) ==
  IF ys = <<>> THEN <<>>
  ELSE IF ToInt(Head(ys)) >= ToInt(from)
       THEN <<Head(ys)>> \o YearsFrom(Tail(ys), from)
       ELSE YearsFrom(Tail(ys), from)

Contains(ys, y) == \E i \in DOMAIN ys : ys[i] = y

\* the option lists of the year dropdown: no value twice
YearLists ==
  { ys \in {<<>>} \cup SeqsUpTo(YearValues, MaxAvailable) :
      \A i, j \in DOMAIN ys : ys[i] = ys[j] => i = j }

\* src/lidar_downloader.py:290: called with any configuration and any list
InitYears ==
  /\ PipelineOff
  /\ SimplifyOff
  /\ ShapefileOff
  /\ BundleOff
  /\ RetryOff
  /\ gy_pc = "call"
  /\ year \in {"latest"} \cup YearValues
  /\ all_years \in BOOLEAN
  /\ available_years \in YearLists
  /\ selected_years = <<>>

\* lines 292-300
GetYearsToDownload ==
  /\ gy_pc = "call"
  /\ IF year = "latest"
     THEN IF available_years = <<>>
          THEN /\ gy_pc' = "raised"               \* available_years[0]: IndexError
               /\ UNCHANGED selected_years
          ELSE /\ selected_years' = << available_years[1] >>
               /\ gy_pc' = "returned"
     ELSE /\ selected_years' =
               IF all_years THEN YearsFrom(available_years, year)
               ELSE IF Contains(available_years, year) THEN << year >>
               ELSE <<>>
          /\ gy_pc' = "returned"
  /\ UNCHANGED << outside_yearsel, year, all_years, available_years >>

NextYears == GetYearsToDownload

SpecYears == InitYears /\ [][NextYears]_vars

\* ------------------------------------------------- retry_on_exception
\* src/lidar_downloader.py:74-75: wrapper is called, last_exception = None
InitRetry ==
  /\ PipelineOff
  /\ SimplifyOff
  /\ ShapefileOff
  /\ BundleOff
  /\ YearsOff
  /\ rt_pc = "for"
  /\ retries \in 0..MaxCalls
  /\ delay \in 0..MaxDelay
  /\ rt_i = -1
  /\ calls = 0
  /\ last_exception = 0
  /\ sleeps = <<>>
  /\ rt_result = Running

\* line 82: if i < retries - 1
SleepAfter_always(k, r) == k < r
SleepAfter(k, r) == k < r - 1

\* lines 76 and 84: the next i of range(retries), or the raise after the loop
Retry_for ==
  /\ rt_pc = "for"
  /\ IF rt_i + 1 < retries
     THEN /\ rt_i' = rt_i + 1
          /\ rt_pc' = "call"
          /\ UNCHANGED rt_result
     ELSE /\ rt_result' =                        \* raise last_exception
               IF last_exception = 0
               THEN [kind |-> "TypeError", call |-> 0]     \* raise None
               ELSE [kind |-> "raised", call |-> last_exception]
          /\ rt_pc' = "done"
          /\ UNCHANGED rt_i
  /\ UNCHANGED << outside_retrier, retries, delay, calls, last_exception,
                  sleeps >>

\* line 78: return await func(*args, **kwargs)
Retry_call ==
  /\ rt_pc = "call"
  /\ calls' = calls + 1
  /\ \/ /\ rt_result' = [kind |-> "returned", call |-> calls']
        /\ rt_pc' = "done"
        /\ UNCHANGED last_exception
     \/ /\ last_exception' = calls'             \* lines 79-80: an Exception
        /\ rt_pc' = "except"
        /\ UNCHANGED rt_result
     \/ /\ rt_result' = [kind |-> "uncaught", call |-> calls']
        /\ rt_pc' = "done"       \* a BaseException that is no Exception
        /\ UNCHANGED last_exception
  /\ UNCHANGED << outside_retrier, retries, delay, rt_i, sleeps >>

\* lines 81-83: the warning, and the sleep between two calls
Retry_except ==
  /\ rt_pc = "except"
  /\ sleeps' = IF SleepAfter(rt_i, retries)
               THEN Append(sleeps, delay * (rt_i + 1))
               ELSE sleeps
  /\ rt_pc' = "for"
  /\ UNCHANGED << outside_retrier, retries, delay, rt_i, calls, last_exception,
                  rt_result >>

NextRetry == Retry_for \/ Retry_call \/ Retry_except

SpecRetry == InitRetry /\ [][NextRetry]_vars

\* ------------------------------------------------------------- properties
Tiles == 1..Len(tile_names)

Present(t) == tile_names[t] \in TileIndex

\* the retry loop of tile t is over and the call went on
Passed(t) == t < ti

\* the call ended with the exception the except clause of tile t re-raised
RaisedAt(t) == result = "raised" /\ propagating /\ ti = t

SessionsOf(t) == { s \in DOMAIN sessions : sessions[s].tile = t }

OpenSessions == { s \in DOMAIN sessions : sessions[s].open }

SomeYearMatched == \E i \in DOMAIN scanned : scanned[i].matched

Max(a, b) == IF a >= b THEN a ELSE b

\* C1: for a tile of the index whose first N attempts raised, with
\* max_retries = N+1, the call has not raised for that tile, and once the tile
\* is over exactly N+1 attempts were made for it, each with at most one
\* browser session of its own.
C1_RetryThenSuccess ==
  \A t \in Tiles :
    (Present(t) /\ failed[t] = max_retries - 1) =>
      /\ ~RaisedAt(t)
      /\ Passed(t) => /\ attempts[t] = max_retries
                      /\ Cardinality(SessionsOf(t)) <= attempts[t]
                      /\ \A s1, s2 \in SessionsOf(t) :
                           sessions[s1].att = sessions[s2].att => s1 = s2

\* one failure, then the second of two attempts completed
C1_Witness ==
  \E t \in Tiles :
    /\ Present(t) /\ Passed(t)
    /\ max_retries = 2 /\ failed[t] = 1 /\ attempts[t] = 2
    /\ Cardinality(SessionsOf(t)) = 2

\* C2: no tile gets more than max_retries attempts; when every attempt of a
\* tile raised, the call ends after exactly max_retries attempts with the
\* exception of the last of them, and the tile is never passed in silence.
C2_ExhaustionRaisesLast ==
  /\ \A t \in Tiles : attempts[t] <= Max(max_retries, 0)
  /\ \A t \in Tiles :
       RaisedAt(t) => /\ attempts[t] = max_retries
                      /\ failed[t] = max_retries
                      /\ propagated.kind # "none"
                      /\ propagated.att = max_retries
  /\ \A t \in Tiles : (Passed(t) /\ attempts[t] > 0) => failed[t] < attempts[t]

\* two attempts, both raised, the second one's exception left the call
C2_Witness ==
  /\ RaisedAt(ti)
  /\ max_retries = 2
  /\ attempts[ti] = 2
  /\ propagated.att = 2

\* C3: when the call is over and a tile exhausted its attempts, every tile of
\* the index that follows it in the list was attempted.
C3_BatchContinues ==
  (pc = "done" /\ propagating /\ max_retries >= 1) =>
    \A t \in Tiles : (t > ti /\ Present(t)) => attempts[t] >= 1

\* C4: at most one session is open; an open session is the one the running
\* attempt opened, so every session is quit by the time its attempt is over,
\* before the next attempt or the next tile opens one.
C4_SessionQuitPerAttempt ==
  /\ Cardinality(OpenSessions) <= 1
  /\ \A s \in OpenSessions :
       /\ s = browser
       /\ sessions[s].tile = ti
       /\ sessions[s].att = attempts[ti]
       /\ pc \notin {"start", "for", "while", "cleanup", "done"}

\* a second session is open, opened after the first one was quit
C4_Witness ==
  /\ Len(sessions) >= 2
  /\ ~sessions[1].open
  /\ sessions[1].quits = 1
  /\ sessions[2].open

\* C5: when the call is over, tmp_dir no longer exists: stated for the two
\* exits the claim names, the return and the error of a tile that failed
\* terminally (the exits of lines 140 and 182-189 leave tmp_dir behind as well).
C5_TmpDirRemoved ==
  (pc = "done" /\ (result = "returned" \/ propagating)) => ~tmp_exists

\* C6: the scratch directory is used by one attempt of one tile only.  The
\* call has one scratch directory, tmp_dir (line 135); used holds who wrote in
\* it, attempt 0 standing for the bundle a tile writes before its attempts.
C6_ScratchNotShared ==
  \A u, v \in used :
    /\ u[1] = v[1]
    /\ u[2] = v[2] \/ u[2] = 0 \/ v[2] = 0

\* C7: in an attempt the years are listed in the portal's order, one after the
\* other; a year with a match is the last one selected and listed, and every
\* download of the attempt is a link of that year whose label matches.
C7_FirstMatchingYearOnly ==
  /\ \A i \in DOMAIN scanned : scanned[i].year = i
  /\ \A i \in DOMAIN scanned : scanned[i].matched => i = Len(scanned)
  /\ SomeYearMatched => yi = Len(scanned)
  /\ \A d \in downloads :
       /\ d[1] = Len(scanned)
       /\ scanned[d[1]].matched
       /\ Search(tile_name, d[2])

\* the first of two years matched and the attempt completed without another year
C7_Witness ==
  /\ nyears = 2
  /\ Len(scanned) = 1
  /\ scanned[1].matched
  /\ downloads # {}
  /\ pc = "finally"
  /\ err = NoErr

\* C8: the no-match error is raised exactly when the year loop ran to its end
\* with no year matching: every offered year was then selected and listed
\* once, in order, and an attempt in which no year matched does not succeed.
C8_NoMatchAfterAllYears ==
  /\ err.kind = "NoMatch" =>
       /\ nyears >= 0
       /\ Len(scanned) = nyears
       /\ yi = nyears
       /\ \A i \in DOMAIN scanned : scanned[i].year = i /\ ~scanned[i].matched
  /\ (wf = "Exhausted") <=> (err.kind = "NoMatch")
  /\ (pc \in {"except", "finally"} /\ nyears >= 0 /\ Len(scanned) = nyears
        /\ ~SomeYearMatched) => err.kind = "NoMatch"

\* two years were offered and listed, neither matched, the no-match error is raised
C8_Witness ==
  /\ err.kind = "NoMatch"
  /\ nyears = 2
  /\ Len(scanned) = 2

\* C9: once a year of the attempt has matched, the attempt does not end with
\* the no-match error, whatever happens to the matched links.
C9_NoFalseNoMatch ==
  SomeYearMatched => (err.kind # "NoMatch" /\ wf # "Exhausted")

\* a year matched and the attempt failed while its links were processed
C9_Witness ==
  /\ SomeYearMatched
  /\ pc = "except"
  /\ err.kind \in {"FileNotFound", "Transport"}

Rank(s) ==
  CASE s = "none" -> 0
    [] s = "Started" -> 1
    [] s = "UploadModeSelected" -> 2
    [] s = "BundleUploaded" -> 3
    [] s = "SelectorTriggered" -> 4
    [] s = "ProductSelected" -> 5
    [] s = "YearIterating" -> 6
    [] s = "TilesListed" -> 7
    [] s = "Matched" -> 8
    [] s = "Exhausted" -> 8

AttemptEnds == wf' = "none"

\* C10 as stated: in an attempt the driver's state only moves forward along
\* the sequence, never to an earlier state.
C10_NeverBackward ==
  [][~AttemptEnds => Rank(wf') >= Rank(wf)]_vars

\* C10 amended: the states up to ProductSelected follow one another; then
\* YearIterating and TilesListed alternate, once per year listed; the only move
\* to an earlier state is from TilesListed back to YearIterating, for the next
\* year after a year without a match; Matched follows the TilesListed of a
\* year with a match, Exhausted that of the last year, or ProductSelected
\* when the portal offers no year.
C10_OrderWithYearLoop ==
  [][(wf' # wf /\ ~AttemptEnds) =>
       \/ Rank(wf') = Rank(wf) + 1 /\ Rank(wf') <= 7
       \/ wf = "TilesListed" /\ wf' = "Matched" /\ scanned[yi].matched
       \/ wf = "TilesListed" /\ wf' = "Exhausted"
            /\ yi = nyears /\ ~SomeYearMatched
       \/ wf = "ProductSelected" /\ wf' = "Exhausted" /\ nyears = 0
       \/ wf = "TilesListed" /\ wf' = "YearIterating"
            /\ ~scanned[yi].matched /\ yi' = yi + 1 /\ yi' <= nyears]_vars

\* the driver is back in YearIterating for the second year
C10_Witness ==
  /\ wf = "YearIterating"
  /\ yi = 2
  /\ Len(scanned) = 1

\* C11: once the wait of a workflow step has expired, the attempt performs no
\* later workflow step and no download and writes nothing more; its session is
\* quit when the attempt ends, and the retry loop then starts a new attempt
\* exactly when fewer than max_retries attempts have been made for the tile,
\* the call raising otherwise.
C11_TimeoutAbandonsAttempt ==
  [][err.kind = "Timeout" =>
       /\ wf' \in {wf, "none"}
       /\ downloads' \subseteq downloads
       /\ files' = files
       /\ pc \in {"except", "finally"}
       /\ pc = "finally" =>
            /\ browser \in DOMAIN sessions
            /\ ~sessions'[browser].open
            /\ sessions'[browser].att = attempts[ti]
            /\ (attempts[ti] < max_retries) <=> (pc' = "while" /\ WhileCond')
            /\ (attempts[ti] >= max_retries) <=> (pc' = "done" /\ result' = "raised")]_vars

\* the wait for the results list of the second year expired in the first of
\* two attempts: the except clause has run and does not re-raise
C11_Witness ==
  /\ err.kind = "Timeout"
  /\ pc = "finally"
  /\ wf = "YearIterating"
  /\ yi = 2
  /\ attempts[ti] = 1
  /\ max_retries = 2
  /\ ~propagating

\* C12: no download is requested for a tile whose destination
\* output_dir/<tile>/cog_<tile>.tif still holds what an earlier call wrote.
C12_PopulatedIsSkipped ==
  \A d \in downloads : cogs[ti] # Earlier

\* C13: download_file returns normally to line 314 only after a response of
\* status 200, which created the file at temp_zip_path; a response of any
\* other status raises and control never reaches the extraction.
C13_NonSuccessRaises ==
  pc = "extract" => zips[name] # "none"

\* C14: when the extraction of a downloaded archive leaves no raster in
\* tmp_dir, the processing of the archive raises.
C14_NoRasterFails ==
  [][(pc = "extract" /\ zips[name] = "notif" /\ tifs = {}) =>
       (pc' = "except" /\ err'.kind # "none")]_vars

\* C15: a conversion that fails raises nothing: no attempt and no failure is
\* counted, no download is added, and the link loop goes on with the next
\* link; after the last link the attempt ends without an error, and an
\* attempt that ends without an error is followed by the next tile.
C15_ConversionFailureSwallowed ==
  [][/\ (pc = "convert" /\ cogs' = cogs) =>
          /\ err' = NoErr
          /\ pc' = "link" /\ mi' = mi + 1
          /\ retry_count' = retry_count /\ counts' = counts
          /\ downloads' = downloads
          /\ outcome' = outcome
     /\ (pc = "link" /\ mi > Len(matching_products)) =>
          (pc' = "finally" /\ err' = NoErr)
     /\ (pc = "finally" /\ err = NoErr) =>
          (pc' = "for" /\ ti' = ti + 1 /\ result' = "running")]_vars

\* the only attempt of the first tile extracted a raster and ended without an
\* error, yet the tile has no output: the conversion failed, and the call is at
\* the next tile
C15_Witness ==
  /\ pc = "for"
  /\ ti = 2
  /\ attempts[1] = 1
  /\ failed[1] = 0
  /\ tifs # {}
  /\ cogs[1] = <<>>
  /\ result = "running"

\* C16: whenever the link loop is at its head, before the first link or after
\* a link has been processed, no extracted raster is left in tmp_dir.
C16_ExtractedFilesRemoved ==
  pc = "link" => tifs = {}

\* C17: a tile name that is absent from the index is never passed: the call
\* does not go on to the next tile, or to its end, after such a name.
C17_AbsentTileFails ==
  \A t \in Tiles : ~Present(t) => ~Passed(t)

\* C18: when the call ends with the error of the footprint or of the upload
\* bundle of a tile, max_retries attempts were made and failed for that tile.
C18_PackagingRetried ==
  (result = "raised" /\ propagated.kind = "Packaging") =>
    failed[ti] >= max_retries

\* C19: _simplify_geometry returns only a geometry of at most MAX_VERTICES
\* vertices; given a geometry that is not above the limit it makes no pass,
\* does not raise and returns it as it was; and as long as it has neither
\* returned nor raised it has a next step, within seven passes.
C19_SimplifyWithinLimitOrRaises ==
  /\ sg_pc = "returned" => shp <= MAX_VERTICES
  /\ shp_in <= MAX_VERTICES =>
       /\ sg_pc \in {"call", "while", "returned"}
       /\ shp = shp_in
       /\ tols = <<>>
  /\ sg_pc \notin {"returned", "raised"} =>
       (ENABLED NextSimplify /\ Len(tols) <= 7)

\* a geometry above the limit was brought under it by the second pass and returned
C19_Witness ==
  /\ sg_pc = "returned"
  /\ shp_in > MAX_VERTICES
  /\ shp <= MAX_VERTICES
  /\ tols = <<10, 20>>

\* C20: _simplify_geometry raises only with a geometry that is still above
\* the limit: a geometry some pass brought under the limit is not rejected.
C20_RaisesOnlyIfStillOver ==
  sg_pc = "raised" => shp > MAX_VERTICES

\* C21: when process_shapefile has read a geometry that is large or has
\* several parts, the call ends by returning one bundle per part, and no
\* simplification pass was made.
C21_ComplexIsTiled ==
  (ps_pc = "done" /\ Complex /\ ps_result.cause \notin {"read_file", "no_crs"}) =>
    /\ ps_result.kind = "returned"
    /\ ps_result.bundles = parts
    /\ tols = <<>>

\* C22: the closed archive holds exactly the sidecar files (.shp, .shx, .dbf,
\* .prj) that exist beside the shapefile, and nothing else.
C22_ArchiveHoldsSidecarsOnly ==
  bz_pc = "closed" =>
    archive = { f \in dir_files : f[1] = TmpName /\ f[2] \in Sidecars }

\* C23: with all_years set, _get_years_to_download returns all the available
\* years; stated for the default year, "latest", which the claim names.
C23_AllYearsReturnsAll ==
  (gy_pc = "returned" /\ all_years /\ year = "latest") =>
    selected_years = available_years

\* C24: _simplify_geometry makes at most 7 passes, the i-th of them at the
\* tolerance 10 * 2^(i-1), so that no pass is made above the cap of 1000, and
\* every call ends, by a return or by the error.
C24_SimplifyBoundedDoubling ==
  /\ [](/\ Len(tols) <= 7
        /\ \A i \in DOMAIN tols : tols[i] = 10 * 2^(i - 1) /\ tols[i] <= 1000)
  /\ <>(sg_pc \in {"returned", "raised"})

\* the seventh pass, at tolerance 640, was made and the call ended
C24_Witness ==
  /\ sg_pc = "raised"
  /\ Len(tols) = 7
  /\ tols[7] = 640

\* C25: an attempt does not end without an error while the archive of one of
\* its matched links is a partial file, left by an attempt that failed while
\* writing it: the link loop downloads such an archive again.
C25_PartialFileRedownloaded ==
  (pc = "finally" /\ err = NoErr) =>
    \A i \in DOMAIN matching_products : zips[matching_products[i]] # "partial"

\* C26: the raster passed to convert_cog for a matched link was extracted
\* from the archive of that link.
C26_ConvertsOwnRaster ==
  pc = "convert" => (tiff_file = name /\ zips[name] = "tif")

\* C27: no session is quit more than once, and a session that is no longer
\* open was quit exactly once.
C27_QuitExactlyOnce ==
  \A s \in DOMAIN sessions :
    /\ sessions[s].quits <= 1
    /\ ~sessions[s].open => sessions[s].quits = 1

\* C28: a tile of the index that the call has passed had at least one attempt,
\* whatever max_retries is.
C28_AttemptOrRaise ==
  \A t \in Tiles : (Present(t) /\ Passed(t)) => attempts[t] >= 1

\* C29: the wrapped function is called at most retries times; the value
\* returned is that of the first call that did not raise, which is the last
\* call made; when retries >= 1 calls have failed the exception raised is that
\* of the last of them; there is one sleep after each failed call but the
\* retries-th, the k-th sleep lasting delay * k.
C29_RetryOnException ==
  /\ calls <= retries
  /\ rt_result.kind = "returned" =>
       /\ rt_pc = "done"
       /\ rt_result.call = calls
       /\ last_exception = calls - 1
  /\ rt_result.kind = "raised" =>
       /\ rt_pc = "done"
       /\ calls = retries
       /\ rt_result.call = retries
  /\ (rt_pc = "for" /\ last_exception = retries /\ retries >= 1) =>
       (~ENABLED Retry_call /\ Len(sleeps) = retries - 1)
  /\ Len(sleeps) <= last_exception
  /\ last_exception < retries => Len(sleeps) >= last_exception - 1
  /\ last_exception = retries => Len(sleeps) = (IF retries = 0 THEN 0 ELSE retries - 1)
  /\ \A k \in DOMAIN sleeps : sleeps[k] = delay * k

\* three calls, all failed: two sleeps, then the exception of the third call
C29_Witness ==
  /\ retries = 3
  /\ rt_result = [kind |-> "raised", call |-> 3]
  /\ delay = 1
  /\ sleeps = <<1, 2>>

====
